---- MODULE Spec2Model ----
(***************************************************************************)
(* View-synchronisation clients of the cs50w coursework repository:       *)
(*   mail      - project3/mail/static/mail/inbox.js                        *)
(*   feed      - unnamed/part_000 (the social-network feed script)         *)
(*   dashboard - project5/static/js/dashboard.js                           *)
(* Each script runs on its own page; `page` says which one is loaded.      *)
(* A step is one whole event handler or one whole response continuation:   *)
(* the browser runs callbacks to completion, the only suspension points    *)
(* are the network requests, kept in `net` while they are in flight.       *)
(***************************************************************************)
EXTENDS Integers, Sequences, FiniteSets, Bags, TLC

\* Requests a page has in flight at once through user actions: an action that
\* issues a request is taken only while fewer than this many are in flight.
MaxInFlight == 2

VARIABLES
    page,            \* which script's page is loaded
    ready,           \* DOMContentLoaded has fired
    hasAlert,        \* #alert-container is present in the page
    cookie,          \* document.cookie, a sequence of <<name, value>> pairs
    alert,           \* children of #alert-container
    net,             \* requests in flight, a bag of request records
    last,            \* the handler that ran last
    currentMailbox,  \* inbox.js:1
    shown,           \* which of #emails-view / #compose-view is displayed
    emailsView,      \* children of #emails-view
    compose,         \* the compose form's three fields as displayed; blank
                     \* while #compose-view is hidden, since hidden values
                     \* are overwritten by compose_email before they can be
                     \* seen or submitted again
    feedKind,        \* part_000:5, data-feed of #page-root ("all" / "profile")
    currentPage,     \* part_000:8
    totalPages,      \* part_000:9
    posts,           \* content of #posts-container
    pagination,      \* children of #pagination
    newPost,         \* #new-post-content's value and #char-count's text
    follow,          \* #follow-toggle and the #profile-followers texts
    currencyCode,    \* dashboard.js:18
    currencyFormatter, \* dashboard.js:19, the currency it formats with
    summary,         \* texts and attributes of the #summary-* elements
    charts,          \* dashboard.js:27, per slot the instance held
    chartView,       \* per slot the d-none classes of canvas and placeholder
    console          \* what console.error has logged

commonVars == <<page, ready, hasAlert, cookie, alert, net, last>>
mailVars == <<currentMailbox, shown, emailsView, compose>>
feedVars == <<feedKind, currentPage, totalPages, posts, pagination, newPost, follow>>
dashVars == <<currencyCode, currencyFormatter, summary, charts, chartView, console>>
vars == <<commonVars, mailVars, feedVars, dashVars>>

----------------------------------------------------------------------------
\* Strings the scripts build are kept as sequences of pieces where the code
\* concatenates, and as TLA+ strings where it passes them through.

UserEmail == "me@x.com"
ServerError == "server says no"
\* error.message of a rejected fetch() and of a rejected response.json()
NetErrText == "Failed to fetch"
ParseErrText == "Unexpected token < in JSON"

NoData == [none |-> TRUE]
NetErr == [st |-> "neterr", ok |-> FALSE, parse |-> FALSE, err |-> "", data |-> NoData]
Http(ok, parse, err, data) ==
    [st |-> "http", ok |-> ok, parse |-> parse, err |-> err, data |-> data]

\* The answers that are not a success with a parseable body.
Failures ==
    {NetErr, Http(TRUE, FALSE, "", NoData), Http(FALSE, FALSE, "", NoData),
     Http(FALSE, TRUE, "", NoData), Http(FALSE, TRUE, ServerError, NoData)}

\* What the server side can answer to a request whose success body is in D.
Responses(D) == Failures \cup {Http(TRUE, TRUE, "", d) : d \in D}

\* fetch(...).then(r => r.json().then(data => ({ok, data}))).then(({ok, data}) =>
\*   { if (!ok) throw new Error(data.error || fallback); ... }), and the same
\* with await: the message of the error that reaches the catch, "" when none
\* is thrown.
Thrown(r, fallback) ==
    IF r.st = "neterr" THEN NetErrText
    ELSE IF ~r.parse THEN ParseErrText
    ELSE IF ~r.ok THEN (IF r.err # "" THEN r.err ELSE fallback)
    ELSE ""

\* A request in flight.  arg: what the call was made with; hdr: its X-CSRFToken
\* header; att: the element its continuation writes to is still in the
\* document; sup: a later collection load has been issued since (loads only).
Req(kind, method, arg, hdr, att) ==
    [kind |-> kind, method |-> method, arg |-> arg, hdr |-> hdr, att |-> att,
     sup |-> FALSE]

\* No X-CSRFToken header / the header with value v.
NoHeader == <<>>
Header(v) == <<v>>

\* Bag b with one more / one fewer copy of request q.
Issue(b, q) == b (+) SetToBag({q})
Settle(b, q) == b (-) SetToBag({q})
InFlight == BagCardinality(net)

RECURSIVE SumCopies(_, _)
SumCopies(b, S) ==
    IF S = {} THEN 0
    ELSE LET e == CHOOSE x \in S : TRUE IN CopiesIn(e, b) + SumCopies(b, S \ {e})

\* The bag of f[q] for the requests q of bag b.
MapBag(b, f) ==
    [x \in {f[e] : e \in BagToSet(b)} |->
        SumCopies(b, {e \in BagToSet(b) : f[e] = x})]

\* The record of the handler that just ran: the request whose continuation it
\* is ("user" for the handler of a user event), whether it completed without
\* catching an error, whether the request had been superseded by a later
\* collection load, and the blocking alert() dialogs it raised.
Ev(op, ok, stale, dialogs) == [op |-> op, ok |-> ok, stale |-> stale, dialogs |-> dialogs]
\* A handler of a user event ran.
UserEv == Ev("user", TRUE, FALSE, <<>>)
\* The continuation of request q's fetch ran: err is the message it caught.
RespEv(q, err, dialogs) == Ev(q.kind, err = "", q.sup, dialogs)

----------------------------------------------------------------------------
\* Text typed by the user is a sequence of one-character strings.

IsSpace(c) == c = " "

RECURSIVE TrimLeft(_)
TrimLeft(s) ==
    IF s # <<>> /\ IsSpace(Head(s)) THEN TrimLeft(Tail(s)) ELSE s

RECURSIVE TrimRight(_)
TrimRight(s) ==
    IF s # <<>> /\ IsSpace(s[Len(s)]) THEN TrimRight(SubSeq(s, 1, Len(s) - 1)) ELSE s

\* String.prototype.trim
Trim(s) == TrimRight(TrimLeft(s))

\* Array.prototype.join(', '): the pieces with the separator between them.
RECURSIVE Join(_)
Join(xs) ==
    IF xs = <<>> THEN <<>>
    ELSE IF Len(xs) = 1 THEN <<xs[1]>>
    ELSE <<xs[1], ", ">> \o Join(Tail(xs))

----------------------------------------------------------------------------
\* The mail client, inbox.js

Mailboxes == {"inbox", "sent", "archive"}

\* mailbox.charAt(0).toUpperCase() + mailbox.slice(1)
Capitalize(mb) ==
    CASE mb = "inbox" -> "Inbox"
      [] mb = "sent" -> "Sent"
      [] mb = "archive" -> "Archive"

\* Email summaries the server can list.
Email1 ==
    [id |-> 1, sender |-> "a@x.com", recipients |-> <<UserEmail>>, subject |-> "Hi",
     timestamp |-> "t1", read |-> FALSE]
Email2 ==
    [id |-> 2, sender |-> UserEmail, recipients |-> <<"a@x.com", "b@x.com">>,
     subject |-> "", timestamp |-> "t2", read |-> TRUE]
MailLists == {[items |-> xs] : xs \in {<<>>, <<Email1>>, <<Email2, Email1>>}}

\* Full emails the server can return for GET /emails/<id>.
DetailData(id) ==
    {[id |-> id, sender |-> c[1], recipients |-> <<UserEmail>>, subject |-> "Hi",
      timestamp |-> "t1", body |-> "text", read |-> c[2], archived |-> c[3]] :
        c \in {<<"a@x.com", FALSE, FALSE>>, <<"a@x.com", TRUE, TRUE>>,
                <<UserEmail, TRUE, FALSE>>}}

BlankCompose == [recipients |-> <<>>, subject |-> "", body |-> ""]
TypedCompose == [recipients |-> <<" ", "a", "@", "x">>, subject |-> "Hi", body |-> "text"]

\* A variant of show_alert that appends the notification without emptying the
\* region first, for checking that the single-slot property depends on line 239.
show_alert_appending(cur, message, type) ==
    IF ~hasAlert THEN cur
    ELSE IF message = "" THEN <<>>
         ELSE Append(cur, [msg |-> message, type |-> type])

\* show_alert(message, type): the region's children afterwards.
show_alert(cur, message, type) ==
    IF ~hasAlert THEN cur
    ELSE LET cleared == <<>>
         IN IF message = "" THEN cleared
            ELSE Append(cleared, [msg |-> message, type |-> type])

\* show_alert when the region is absent: the blocking alert() it raises.
show_alert_dialog(message) ==
    IF ~hasAlert /\ message # "" THEN <<message>> ELSE <<>>

hide_alert(cur) == show_alert(cur, "", "info")

Heading(mb) == [t |-> "h3", text |-> Capitalize(mb)]
ListNode(rows) == [t |-> "list", rows |-> rows]
EmptyState == [t |-> "empty", text |-> "No emails to display."]

\* The row load_mailbox builds for one email of the response (lines 64-91);
\* its click handler opens view_email(email.id).
MailRow(mailbox, email) ==
    [id |-> email.id,
     emailRead |-> email.read,
     counterpart |-> IF mailbox = "sent" THEN Join(email.recipients) ELSE <<email.sender>>,
     subject |-> IF email.subject = "" THEN "(no subject)" ELSE email.subject,
     timestamp |-> email.timestamp,
     opens |-> email.id]

\* A variant of MailRows that lists the newest item last, for checking that
\* the row-order property depends on the order rows are appended in.
MailRowsReversed(mailbox, data) ==
    [i \in 1..Len(data) |-> MailRow(mailbox, data[Len(data) + 1 - i])]

\* data.forEach(email => ... listContainer.appendChild(item))
MailRows(mailbox, data) == [i \in 1..Len(data) |-> MailRow(mailbox, data[i])]

\* listContainer.appendChild for the list container that is a child of
\* #emails-view.
AppendToList(view, rows) ==
    [i \in 1..Len(view) |->
        IF view[i].t = "list" THEN ListNode(view[i].rows \o rows) ELSE view[i]]

\* The detail card view_email builds (lines 138-197).
DetailNode(emailId, data) ==
    [t |-> "detail", emailId |-> emailId,
     from |-> data.sender, to |-> Join(data.recipients),
     subject |-> IF data.subject = "" THEN "(no subject)" ELSE data.subject,
     timestamp |-> data.timestamp, body |-> data.body,
     archiveButton |-> data.sender # UserEmail,
     archiveLabel |-> IF data.archived THEN "Unarchive" ELSE "Archive",
     archiveTo |-> ~data.archived,
     replyTo |-> data.sender]

\* The rows of the list that #emails-view holds (none when it holds no list).
ShownRows ==
    IF \E i \in 1..Len(emailsView) : emailsView[i].t = "list"
    THEN (emailsView[CHOOSE i \in 1..Len(emailsView) : emailsView[i].t = "list"]).rows
    ELSE <<>>

ShownDetail == emailsView # <<>> /\ emailsView[1].t = "detail"

\* inbox.js passes fetch no headers option.
MailReq(kind, method, arg) == Req(kind, method, arg, NoHeader, TRUE)

\* A variant of Detach in which every load_mailbox call appends to the list
\* container found in the document when its response arrives, for checking
\* that the stale-rows property depends on each call keeping its own container.
DetachKeeping(reqs, superseding) ==
    LET F(q) == IF q.kind = "load_mailbox"
                THEN [q EXCEPT !.sup = @ \/ superseding]
                ELSE q
    IN MapBag(reqs, [q \in BagToSet(reqs) |-> F(q)])

\* #emails-view's children are replaced: the list containers of the loads in
\* flight leave the document (and, for a new load, those loads are superseded).
Detach(reqs, superseding) ==
    LET F(q) == IF q.kind = "load_mailbox"
                THEN [q EXCEPT !.att = FALSE, !.sup = @ \/ superseding]
                ELSE q
    IN MapBag(reqs, [q \in BagToSet(reqs) |-> F(q)])

\* load_mailbox(mailbox) up to and including its fetch (lines 29-47).
load_mailbox(mailbox, netBase) ==
    /\ currentMailbox' = mailbox
    /\ shown' = "emails"
    /\ emailsView' = <<Heading(mailbox), ListNode(<<>>)>>
    /\ compose' = BlankCompose
    /\ net' = Issue(Detach(netBase, TRUE),
                    MailReq("load_mailbox", "GET", [mailbox |-> mailbox]))

MailDOMContentLoaded ==
    /\ page = "mail" /\ ~ready
    /\ ready' = TRUE
    /\ load_mailbox("inbox", net)
    /\ alert' = hide_alert(alert)
    /\ last' = UserEv
    /\ UNCHANGED <<feedVars, dashVars, page, hasAlert, cookie>>

ClickMailbox(mb) ==
    /\ page = "mail" /\ ready /\ InFlight < MaxInFlight
    /\ load_mailbox(mb, net)
    /\ alert' = hide_alert(alert)
    /\ last' = UserEv
    /\ UNCHANGED <<feedVars, dashVars, page, ready, hasAlert, cookie>>

\* compose_email(prefill)
compose_email(prefill) ==
    /\ alert' = hide_alert(alert)
    /\ shown' = "compose"
    /\ compose' = prefill
    /\ UNCHANGED <<feedVars, dashVars, page, ready, hasAlert, cookie, net, currentMailbox, emailsView>>

ClickCompose ==
    /\ page = "mail" /\ ready
    /\ compose_email(BlankCompose)
    /\ last' = UserEv

\* The user fills the compose form in.
TypeCompose ==
    /\ page = "mail" /\ ready /\ shown = "compose"
    /\ compose' = TypedCompose
    /\ last' = UserEv
    /\ UNCHANGED <<feedVars, dashVars, page, ready, hasAlert, cookie, alert, net, currentMailbox, shown,
                   emailsView>>

\* The subject the Reply button prefills (lines 162-166).
ReplySubject(subject) ==
    CASE subject = "(no subject)" -> "Re:"
      [] subject = "Hi" -> "Re: Hi"
      [] OTHER -> subject

\* Reply button of the detail card (lines 159-174).
ClickReply ==
    /\ page = "mail" /\ ready /\ shown = "emails" /\ ShownDetail
    /\ compose_email([recipients |-> <<emailsView[1].replyTo>>,
                      subject |-> ReplySubject(emailsView[1].subject),
                      body |-> "quoted"])
    /\ last' = UserEv

\* send_email(event) up to and including its fetch (lines 98-109).
SubmitCompose ==
    /\ page = "mail" /\ ready /\ shown = "compose" /\ InFlight < MaxInFlight
    /\ alert' = hide_alert(alert)
    /\ net' = Issue(net, MailReq("send_email", "POST",
                                 [compose EXCEPT !.recipients = Trim(@)]))
    /\ last' = UserEv
    /\ UNCHANGED <<feedVars, dashVars, page, ready, hasAlert, cookie, mailVars>>

\* A click on row i of the displayed list: view_email(email.id) up to its fetch.
ClickRow(i) ==
    /\ page = "mail" /\ ready /\ shown = "emails" /\ InFlight < MaxInFlight
    /\ i \in 1..Len(ShownRows)
    /\ alert' = hide_alert(alert)
    /\ net' = Issue(net, MailReq("view_email", "GET", [emailId |-> ShownRows[i].opens]))
    /\ last' = UserEv
    /\ UNCHANGED <<feedVars, dashVars, page, ready, hasAlert, cookie, mailVars>>

\* The archive button of the detail card: toggle_archive(emailId, !data.archived)
\* up to and including its fetch (lines 215-219).
ClickArchive ==
    /\ page = "mail" /\ ready /\ shown = "emails" /\ InFlight < MaxInFlight
    /\ ShownDetail /\ emailsView[1].archiveButton
    /\ net' = Issue(net, MailReq("toggle_archive", "PUT",
                                 [emailId |-> emailsView[1].emailId,
                                  archived |-> emailsView[1].archiveTo]))
    /\ last' = UserEv
    /\ UNCHANGED <<feedVars, dashVars, page, ready, hasAlert, cookie, alert, mailVars>>

\* The continuation of load_mailbox's fetch (lines 48-95), for request q.
LoadMailboxResponse(q, r) ==
    /\ page = "mail" /\ BagIn(q, net) /\ q.kind = "load_mailbox"
    /\ r \in Responses(MailLists)
    /\ LET err == Thrown(r, "Unable to load mailbox.")
       IN /\ emailsView' =
                IF err # "" THEN emailsView
                ELSE IF Len(r.data.items) = 0 THEN Append(emailsView, EmptyState)
                ELSE IF q.att
                     THEN AppendToList(emailsView, MailRows(q.arg.mailbox, r.data.items))
                     ELSE emailsView
          /\ alert' = IF err # "" THEN show_alert(alert, err, "info") ELSE alert
          /\ last' = RespEv(q, err, show_alert_dialog(err))
    /\ net' = Settle(net, q)
    /\ UNCHANGED <<feedVars, dashVars, page, ready, hasAlert, cookie, currentMailbox, shown, compose>>

\* A variant of ViewEmailResponse that calls mark_read whatever data.read is,
\* for checking that the read-marking property depends on the test of line 199.
ViewEmailResponseAlwaysMarking(q, r) ==
    /\ page = "mail" /\ BagIn(q, net) /\ q.kind = "view_email"
    /\ r \in Responses(DetailData(q.arg.emailId))
    /\ LET err == Thrown(r, "Unable to load email.")
       IN /\ emailsView' =
                IF err # "" THEN emailsView ELSE <<DetailNode(q.arg.emailId, r.data)>>
          /\ alert' = IF err # "" THEN show_alert(alert, err, "danger") ELSE alert
          /\ net' = IF err # "" THEN Settle(net, q)
                    ELSE Issue(Detach(Settle(net, q), FALSE),
                               MailReq("mark_read", "PUT",
                                       [emailId |-> q.arg.emailId, read |-> TRUE]))
          /\ last' = RespEv(q, err, show_alert_dialog(err))
    /\ UNCHANGED <<feedVars, dashVars, page, ready, hasAlert, cookie, currentMailbox, shown, compose>>

\* The continuation of view_email's fetch (lines 130-205); when the email is
\* unread it calls mark_read(emailId), which issues its PUT (lines 208-212).
ViewEmailResponse(q, r) ==
    /\ page = "mail" /\ BagIn(q, net) /\ q.kind = "view_email"
    /\ r \in Responses(DetailData(q.arg.emailId))
    /\ LET err == Thrown(r, "Unable to load email.")
       IN /\ emailsView' =
                IF err # "" THEN emailsView ELSE <<DetailNode(q.arg.emailId, r.data)>>
          /\ alert' = IF err # "" THEN show_alert(alert, err, "danger") ELSE alert
          /\ net' = IF err # "" THEN Settle(net, q)
                    ELSE IF r.data.read THEN Detach(Settle(net, q), FALSE)
                    ELSE Issue(Detach(Settle(net, q), FALSE),
                               MailReq("mark_read", "PUT",
                                       [emailId |-> q.arg.emailId, read |-> TRUE]))
          /\ last' = RespEv(q, err, show_alert_dialog(err))
    /\ UNCHANGED <<feedVars, dashVars, page, ready, hasAlert, cookie, currentMailbox, shown, compose>>

\* A variant of MarkReadResponse whose rejection handler reports the error, for
\* checking that the silent-failure property depends on the empty catch of
\* line 212.
MarkReadResponseReporting(q, r) ==
    /\ page = "mail" /\ BagIn(q, net) /\ q.kind = "mark_read"
    /\ r \in Responses({NoData})
    /\ net' = Settle(net, q)
    /\ LET err == IF r.st = "neterr" THEN NetErrText ELSE ""
       IN /\ alert' = IF err # "" THEN show_alert(alert, err, "danger") ELSE alert
          /\ last' = RespEv(q, err, show_alert_dialog(err))
    /\ UNCHANGED <<feedVars, dashVars, page, ready, hasAlert, cookie, mailVars>>

\* mark_read's fetch settles (lines 209-212): only a rejection has a handler,
\* which catches the error and does nothing.
MarkReadResponse(q, r) ==
    /\ page = "mail" /\ BagIn(q, net) /\ q.kind = "mark_read"
    /\ r \in Responses({NoData})
    /\ net' = Settle(net, q)
    /\ last' = RespEv(q, IF r.st = "neterr" THEN NetErrText ELSE "", <<>>)
    /\ UNCHANGED <<feedVars, dashVars, page, ready, hasAlert, cookie, alert, mailVars>>

\* A variant of SendEmailResponse that loads the inbox after a successful
\* send, for checking that the sent-mailbox property depends on line 119.
SendEmailResponseToInbox(q, r) ==
    /\ page = "mail" /\ BagIn(q, net) /\ q.kind = "send_email"
    /\ r \in Responses({[message |-> "Email sent successfully."]})
    /\ LET err == Thrown(r, "Unable to send email.")
       IN IF err = ""
          THEN /\ load_mailbox("inbox", Settle(net, q))
               /\ alert' = hide_alert(show_alert(alert, "Email sent successfully.", "success"))
               /\ last' = RespEv(q, "",
                             show_alert_dialog("Email sent successfully."))
          ELSE /\ alert' = show_alert(alert, err, "danger")
               /\ net' = Settle(net, q)
               /\ last' = RespEv(q, err, show_alert_dialog(err))
               /\ UNCHANGED mailVars
    /\ UNCHANGED <<feedVars, dashVars, page, ready, hasAlert, cookie>>

\* The continuation of send_email's fetch (lines 110-123).
SendEmailResponse(q, r) ==
    /\ page = "mail" /\ BagIn(q, net) /\ q.kind = "send_email"
    /\ r \in Responses({[message |-> "Email sent successfully."]})
    /\ LET err == Thrown(r, "Unable to send email.")
       IN IF err = ""
          THEN /\ load_mailbox("sent", Settle(net, q))
               /\ alert' = hide_alert(show_alert(alert, "Email sent successfully.", "success"))
               /\ last' = RespEv(q, "",
                             show_alert_dialog("Email sent successfully."))
          ELSE /\ alert' = show_alert(alert, err, "danger")
               /\ net' = Settle(net, q)
               /\ last' = RespEv(q, err, show_alert_dialog(err))
               /\ UNCHANGED mailVars
    /\ UNCHANGED <<feedVars, dashVars, page, ready, hasAlert, cookie>>

\* A variant of ToggleArchiveResponse that reloads the inbox whatever the
\* archived flag sent was, for checking that the reload-target property
\* depends on the choice of line 224.
ToggleArchiveResponseToInbox(q, r) ==
    /\ page = "mail" /\ BagIn(q, net) /\ q.kind = "toggle_archive"
    /\ r \in Responses({NoData})
    /\ LET err == IF r.st = "neterr" THEN NetErrText
                  ELSE IF ~r.ok THEN "Unable to update archive state."
                  ELSE ""
       IN IF err = ""
          THEN /\ load_mailbox("inbox", Settle(net, q))
               /\ alert' = hide_alert(alert)
               /\ last' = RespEv(q, "", <<>>)
          ELSE /\ alert' = show_alert(alert, err, "danger")
               /\ net' = Settle(net, q)
               /\ last' = RespEv(q, err, show_alert_dialog(err))
               /\ UNCHANGED mailVars
    /\ UNCHANGED <<feedVars, dashVars, page, ready, hasAlert, cookie>>

\* The continuation of toggle_archive's fetch (lines 220-228): the body is
\* never read, only response.ok.
ToggleArchiveResponse(q, r) ==
    /\ page = "mail" /\ BagIn(q, net) /\ q.kind = "toggle_archive"
    /\ r \in Responses({NoData})
    /\ LET err == IF r.st = "neterr" THEN NetErrText
                  ELSE IF ~r.ok THEN "Unable to update archive state."
                  ELSE ""
       IN IF err = ""
          THEN /\ load_mailbox(IF q.arg.archived THEN "archive" ELSE "inbox",
                               Settle(net, q))
               /\ alert' = hide_alert(alert)
               /\ last' = RespEv(q, "", <<>>)
          ELSE /\ alert' = show_alert(alert, err, "danger")
               /\ net' = Settle(net, q)
               /\ last' = RespEv(q, err, show_alert_dialog(err))
               /\ UNCHANGED mailVars
    /\ UNCHANGED <<feedVars, dashVars, page, ready, hasAlert, cookie>>

----------------------------------------------------------------------------
\* The feed client, part_000

\* getCSRFToken (lines 43-46): document.cookie.match(/csrftoken=([^;]+)/), the
\* value of the first csrftoken pair that has one, else ''.
RECURSIVE CookieMatch(_)
CookieMatch(jar) ==
    IF jar = <<>> THEN ""
    ELSE IF Head(jar)[1] = "csrftoken" /\ Head(jar)[2] # "" THEN Head(jar)[2]
    ELSE CookieMatch(Tail(jar))

getCSRFToken == CookieMatch(cookie)

\* The headers option of the feed's POST and PUT requests.
FeedWrite(kind, method, arg) == Req(kind, method, arg, Header(getCSRFToken), TRUE)
FeedRead(kind, arg) == Req(kind, "GET", arg, NoHeader, TRUE)

\* showAlert(message, type) (lines 48-56): the region's children afterwards.
showAlert(cur, message, type) ==
    IF ~hasAlert THEN cur
    ELSE LET cleared == <<>>
         IN IF message = "" THEN cleared
            ELSE Append(cleared, [msg |-> message, type |-> type])

\* Posts the server can list, and the bodies GET /api/posts can carry.
Post1 ==
    [id |-> 1, author |-> "ann", content |-> <<"a">>, created |-> "d1",
     can_edit |-> TRUE, liked |-> FALSE, like_count |-> 0]
Post2 ==
    [id |-> 2, author |-> "bob", content |-> <<"b">>, created |-> "",
     can_edit |-> FALSE, liked |-> TRUE, like_count |-> 3]
\* hasResults: the body has a results field; total_pages 0: absent or 0.
FeedData ==
    {[hasResults |-> c[1], results |-> c[2], total_pages |-> c[3]] :
        c \in {<<TRUE, <<>>, 0>>, <<FALSE, <<>>, 0>>,
               <<TRUE, <<Post2, Post1>>, 2>>}}

Placeholder(text) == [st |-> text, rows |-> <<>>]
Loading == Placeholder("Loading...")
NoPosts == Placeholder("No posts to display.")
Cleared == Placeholder("")

\* The element renderPosts builds for one post (lines 94-145).
PostItem(post) ==
    [postId |-> post.id, author |-> post.author, timestamp |-> post.created,
     content |-> post.content, editBtn |-> post.can_edit,
     liked |-> post.liked, likeCount |-> post.like_count,
     editing |-> FALSE, textarea |-> <<>>, originalText |-> <<>>]

\* renderPosts(posts) (lines 86-146).
renderPosts(results) ==
    IF Len(results) = 0 THEN NoPosts
    ELSE [st |-> "rows", rows |-> [i \in 1..Len(results) |-> PostItem(results[i])]]

PageItem(label, pg, disabled, active) ==
    [label |-> label, page |-> pg, disabled |-> disabled, active |-> active]

\* renderPagination() (lines 148-181) for the given currentPage and totalPages.
renderPagination(cur, total) ==
    IF total <= 1 THEN <<>>
    ELSE <<PageItem("Previous", cur - 1, cur = 1, FALSE)>>
         \o [pg \in 1..total |-> PageItem("page", pg, FALSE, pg = cur)]
         \o <<PageItem("Next", cur + 1, cur = total, FALSE)>>

\* #posts-container's content is replaced: the elements that requests in
\* flight were issued from leave the document (and, for a new loadFeed call,
\* the loads in flight are superseded).
DetachPosts(reqs, superseding) ==
    LET F(q) == IF q.kind \in {"toggleLike", "savePost"} THEN [q EXCEPT !.att = FALSE]
                ELSE IF q.kind = "loadFeed" THEN [q EXCEPT !.sup = @ \/ superseding]
                ELSE q
    IN MapBag(reqs, [q \in BagToSet(reqs) |-> F(q)])

loadFeedReq(pg) ==
    FeedRead("loadFeed", [feed |-> feedKind, page |-> pg,
                          username |-> IF feedKind = "profile" THEN "ann" ELSE ""])

\* A variant of loadFeed without the showAlert('') of line 60, for checking
\* that the cleared-on-load property depends on it.
loadFeedKeepingAlert(pg, alertBefore, netBase) ==
    /\ currentPage' = pg
    /\ alert' = alertBefore
    /\ posts' = Loading
    /\ pagination' = <<>>
    /\ net' = Issue(DetachPosts(netBase, TRUE), loadFeedReq(pg))

\* loadFeed(page) up to and including its fetch (lines 58-70).
loadFeed(pg, alertBefore, netBase) ==
    /\ currentPage' = pg
    /\ alert' = showAlert(alertBefore, "", "info")
    /\ posts' = Loading
    /\ pagination' = <<>>
    /\ net' = Issue(DetachPosts(netBase, TRUE), loadFeedReq(pg))

\* The DOMContentLoaded handler (lines 20-36).
FeedDOMContentLoaded ==
    /\ page = "feed" /\ ~ready
    /\ ready' = TRUE
    /\ currentPage' = 1
    /\ alert' = showAlert(alert, "", "info")
    /\ posts' = Loading
    /\ pagination' = <<>>
    /\ net' = IF feedKind = "profile"
              THEN Issue(Issue(net, loadFeedReq(1)), FeedRead("loadProfileInfo", NoData))
              ELSE Issue(net, loadFeedReq(1))
    /\ newPost' = [newPost EXCEPT !.count = Len(newPost.value)]
    /\ last' = UserEv
    /\ UNCHANGED <<mailVars, dashVars, page, hasAlert, cookie, feedKind, totalPages, follow>>

\* The continuation of loadFeed's fetch (lines 71-83).
LoadFeedResponse(q, r) ==
    /\ page = "feed" /\ BagIn(q, net) /\ q.kind = "loadFeed"
    /\ r \in Responses(FeedData)
    /\ LET err == Thrown(r, "Unable to load posts.")
           total == IF r.data.total_pages = 0 THEN 1 ELSE r.data.total_pages
       IN IF err = ""
          THEN /\ totalPages' = total
               /\ posts' = renderPosts(IF r.data.hasResults THEN r.data.results ELSE <<>>)
               /\ pagination' = renderPagination(currentPage, total)
               /\ alert' = alert
               /\ last' = RespEv(q, "", <<>>)
          ELSE /\ posts' = Cleared
               /\ alert' = showAlert(alert, err, "danger")
               /\ last' = RespEv(q, err, <<>>)
               /\ UNCHANGED <<totalPages, pagination>>
    /\ net' = DetachPosts(Settle(net, q), FALSE)
    /\ UNCHANGED <<mailVars, dashVars, page, ready, hasAlert, cookie, feedKind, currentPage,
                   newPost, follow>>

\* A click on the k-th pagination button; disabled and active items have no
\* click listener (lines 160-162).
ClickPage(k) ==
    /\ page = "feed" /\ ready /\ InFlight < MaxInFlight
    /\ k \in 1..Len(pagination)
    /\ ~pagination[k].disabled /\ ~pagination[k].active
    /\ loadFeed(pagination[k].page, alert, net)
    /\ last' = UserEv
    /\ UNCHANGED <<mailVars, dashVars, page, ready, hasAlert, cookie, feedKind, totalPages,
                   newPost, follow>>

NewPostTexts == {<<>>, <<" ">>, <<" ", "c">>}

\* The user types in #new-post-content: the input listener is updateCharCount.
TypeNewPost(t) ==
    /\ page = "feed" /\ ready /\ feedKind = "all"
    /\ t \in NewPostTexts
    /\ newPost' = [value |-> t, count |-> Len(t)]
    /\ last' = UserEv
    /\ UNCHANGED <<mailVars, dashVars, page, ready, hasAlert, cookie, alert, net, feedKind,
                   currentPage, totalPages, posts, pagination, follow>>

\* handleNewPostSubmit up to and including its fetch (lines 183-200).
SubmitNewPost ==
    /\ page = "feed" /\ ready /\ feedKind = "all"
    /\ LET content == Trim(newPost.value)
       IN IF content = <<>>
          THEN /\ alert' = showAlert(alert, "Post content cannot be empty.", "warning")
               /\ net' = net
               /\ last' = UserEv
          ELSE /\ InFlight < MaxInFlight
               /\ alert' = alert
               /\ net' = Issue(net, FeedWrite("newPost", "POST", [content |-> content]))
               /\ last' = UserEv
    /\ UNCHANGED <<mailVars, dashVars, page, ready, hasAlert, cookie, feedVars>>

\* A variant of NewPostResponse whose failure handler sends the request again,
\* for checking that the no-retry property depends on the catch of lines
\* 208-210 only showing the error.
NewPostResponseRetrying(q, r) ==
    /\ page = "feed" /\ BagIn(q, net) /\ q.kind = "newPost"
    /\ r \in Responses({[id |-> 3]})
    /\ LET err == Thrown(r, "Unable to create post.")
       IN IF err = ""
          THEN /\ newPost' = [value |-> <<>>, count |-> 0]
               /\ loadFeed(1, showAlert(alert, "Post published!", "success"), Settle(net, q))
               /\ last' = RespEv(q, "", <<>>)
          ELSE /\ alert' = showAlert(alert, err, "danger")
               /\ net' = net
               /\ last' = RespEv(q, err, <<>>)
               /\ UNCHANGED <<currentPage, posts, pagination, newPost>>
    /\ UNCHANGED <<mailVars, dashVars, page, ready, hasAlert, cookie, feedKind, totalPages, follow>>

\* The continuation of handleNewPostSubmit's fetch (lines 201-210).
NewPostResponse(q, r) ==
    /\ page = "feed" /\ BagIn(q, net) /\ q.kind = "newPost"
    /\ r \in Responses({[id |-> 3]})
    /\ LET err == Thrown(r, "Unable to create post.")
       IN IF err = ""
          THEN /\ newPost' = [value |-> <<>>, count |-> 0]
               /\ loadFeed(1, showAlert(alert, "Post published!", "success"), Settle(net, q))
               /\ last' = RespEv(q, "", <<>>)
          ELSE /\ alert' = showAlert(alert, err, "danger")
               /\ net' = Settle(net, q)
               /\ last' = RespEv(q, err, <<>>)
               /\ UNCHANGED <<currentPage, posts, pagination, newPost>>
    /\ UNCHANGED <<mailVars, dashVars, page, ready, hasAlert, cookie, feedKind, totalPages, follow>>

EditTexts == {<<" ">>, <<"c">>}

HasRow(i) == posts.st = "rows" /\ i \in 1..Len(posts.rows)

\* enterEditMode(postElement, postData) (lines 213-276): the paragraph gives
\* way to a textarea holding its text, the Edit button to Save and Cancel.
ClickEdit(i) ==
    /\ page = "feed" /\ ready /\ HasRow(i)
    /\ posts.rows[i].editBtn /\ ~posts.rows[i].editing
    /\ posts' = [posts EXCEPT !.rows[i] =
                    [@ EXCEPT !.editing = TRUE, !.editBtn = FALSE,
                              !.textarea = posts.rows[i].content,
                              !.originalText = posts.rows[i].content]]
    /\ last' = UserEv
    /\ UNCHANGED <<mailVars, dashVars, page, ready, hasAlert, cookie, alert, net, feedKind,
                   currentPage, totalPages, pagination, newPost, follow>>

\* The user types in the edit textarea of row i.
TypeEdit(i, t) ==
    /\ page = "feed" /\ ready /\ HasRow(i) /\ posts.rows[i].editing
    /\ t \in EditTexts
    /\ posts' = [posts EXCEPT !.rows[i].textarea = t]
    /\ last' = UserEv
    /\ UNCHANGED <<mailVars, dashVars, page, ready, hasAlert, cookie, alert, net, feedKind,
                   currentPage, totalPages, pagination, newPost, follow>>

\* exitEditMode() (lines 278-290): the paragraph is put back with the original
\* text, the Edit button restored, and then loadFeed(currentPage) replaces the
\* whole list by the loading placeholder and issues its request.
exitEditMode(alertBefore, netBase) == loadFeed(currentPage, alertBefore, netBase)

\* The Cancel button of row i (line 264).
ClickCancel(i) ==
    /\ page = "feed" /\ ready /\ HasRow(i) /\ posts.rows[i].editing
    /\ InFlight < MaxInFlight
    /\ exitEditMode(alert, net)
    /\ last' = UserEv
    /\ UNCHANGED <<mailVars, dashVars, page, ready, hasAlert, cookie, feedKind, totalPages,
                   newPost, follow>>

\* The Save button of row i, up to and including its fetch (lines 234-252).
ClickSave(i) ==
    /\ page = "feed" /\ ready /\ HasRow(i) /\ posts.rows[i].editing
    /\ LET updatedContent == Trim(posts.rows[i].textarea)
       IN IF updatedContent = <<>>
          THEN /\ alert' = showAlert(alert, "Post content cannot be empty.", "warning")
               /\ last' = UserEv
               /\ UNCHANGED <<net, currentPage, posts, pagination>>
          ELSE IF updatedContent = posts.rows[i].originalText
          THEN /\ InFlight < MaxInFlight
               /\ exitEditMode(alert, net)
               /\ last' = UserEv
          ELSE /\ InFlight < MaxInFlight
               /\ net' = Issue(net, FeedWrite("savePost", "PUT",
                                              [postId |-> posts.rows[i].postId,
                                               content |-> updatedContent]))
               /\ last' = UserEv
               /\ UNCHANGED <<alert, currentPage, posts, pagination>>
    /\ UNCHANGED <<mailVars, dashVars, page, ready, hasAlert, cookie, feedKind, totalPages,
                   newPost, follow>>

\* The body a successful save answers with: the stored content (line 257).
SaveData(q) == IF q.kind = "savePost" THEN {[content |-> q.arg.content]} ELSE {}

\* The continuation of the Save handler's fetch (lines 253-261).
SavePostResponse(q, r) ==
    /\ page = "feed" /\ BagIn(q, net) /\ q.kind = "savePost"
    /\ r \in Responses(SaveData(q))
    /\ LET err == Thrown(r, "Unable to update post.")
       IN IF err = ""
          THEN /\ exitEditMode(showAlert(alert, "Post updated.", "success"), Settle(net, q))
               /\ last' = RespEv(q, "", <<>>)
          ELSE /\ alert' = showAlert(alert, err, "danger")
               /\ net' = Settle(net, q)
               /\ last' = RespEv(q, err, <<>>)
               /\ UNCHANGED <<currentPage, posts, pagination>>
    /\ UNCHANGED <<mailVars, dashVars, page, ready, hasAlert, cookie, feedKind, totalPages,
                   newPost, follow>>

\* The Like button of row i: toggleLike(post.id, likeBtn) up to and including
\* its fetch (lines 293-302).
ClickLike(i) ==
    /\ page = "feed" /\ ready /\ HasRow(i) /\ InFlight < MaxInFlight
    /\ net' = Issue(net, FeedWrite("toggleLike", "PUT", [postId |-> posts.rows[i].postId]))
    /\ last' = UserEv
    /\ UNCHANGED <<mailVars, dashVars, page, ready, hasAlert, cookie, alert, feedVars>>

LikeData == {[liked |-> TRUE, like_count |-> 1]}

\* The button a toggleLike call was given is written to; it shows only while
\* it is still in the document.
SetLike(rows, postId, data) ==
    [i \in 1..Len(rows) |->
        IF rows[i].postId = postId
        THEN [rows[i] EXCEPT !.likeCount = data.like_count, !.liked = data.liked]
        ELSE rows[i]]

\* The continuation of toggleLike's fetch (lines 303-313).
ToggleLikeResponse(q, r) ==
    /\ page = "feed" /\ BagIn(q, net) /\ q.kind = "toggleLike"
    /\ r \in Responses(LikeData)
    /\ LET err == Thrown(r, "Unable to update like.")
       IN /\ posts' = IF err = "" /\ q.att
                      THEN [posts EXCEPT !.rows = SetLike(@, q.arg.postId, r.data)]
                      ELSE posts
          /\ alert' = IF err = "" THEN alert ELSE showAlert(alert, err, "danger")
          /\ last' = RespEv(q, err, <<>>)
    /\ net' = Settle(net, q)
    /\ UNCHANGED <<mailVars, dashVars, page, ready, hasAlert, cookie, feedKind, currentPage,
                   totalPages, pagination, newPost, follow>>

ProfileData ==
    {[username |-> "ann", followers |-> c[1], following |-> 4, is_self |-> c[2],
      is_following |-> c[3]] :
        c \in {<<1, FALSE, FALSE>>, <<2, TRUE, FALSE>>}}

FollowLabel(isFollowing) == IF isFollowing THEN "Unfollow" ELSE "Follow"
Plural(n) == IF n = 1 THEN "" ELSE "s"

\* The continuation of loadProfileInfo's fetch (lines 319-345).
LoadProfileInfoResponse(q, r) ==
    /\ page = "feed" /\ BagIn(q, net) /\ q.kind = "loadProfileInfo"
    /\ r \in Responses(ProfileData)
    /\ LET err == Thrown(r, "Unable to load profile.")
       IN IF err = ""
          THEN /\ follow' =
                    IF r.data.is_self
                    THEN [follow EXCEPT !.username = r.data.username,
                                        !.followers = r.data.followers,
                                        !.followingCount = r.data.following,
                                        !.plural = Plural(r.data.followers),
                                        !.hidden = TRUE]
                    ELSE [follow EXCEPT !.username = r.data.username,
                                        !.followers = r.data.followers,
                                        !.followingCount = r.data.following,
                                        !.plural = Plural(r.data.followers),
                                        !.hidden = FALSE,
                                        !.label = FollowLabel(r.data.is_following),
                                        !.following = r.data.is_following]
               /\ alert' = alert
               /\ last' = RespEv(q, "", <<>>)
          ELSE /\ alert' = showAlert(alert, err, "danger")
               /\ follow' = follow
               /\ last' = RespEv(q, err, <<>>)
    /\ net' = Settle(net, q)
    /\ UNCHANGED <<mailVars, dashVars, page, ready, hasAlert, cookie, feedKind, currentPage,
                   totalPages, posts, pagination, newPost>>

\* toggleFollow up to and including its fetch (lines 348-358); a disabled
\* button dispatches no click.
ClickFollow ==
    /\ page = "feed" /\ ready /\ feedKind = "profile" /\ InFlight < MaxInFlight
    /\ ~follow.disabled /\ ~follow.hidden
    /\ follow' = [follow EXCEPT !.disabled = TRUE]
    /\ net' = Issue(net, FeedWrite("toggleFollow", "POST", NoData))
    /\ last' = UserEv
    /\ UNCHANGED <<mailVars, dashVars, page, ready, hasAlert, cookie, alert, feedKind, currentPage,
                   totalPages, posts, pagination, newPost>>

FollowData == {[is_following |-> TRUE, followers |-> 1], [is_following |-> FALSE, followers |-> 2]}

\* A variant of ToggleFollowResponse without the finally block of lines
\* 376-378 (the button is re-enabled on success only), for checking that the
\* re-enabling property depends on it.
ToggleFollowResponseNoFinally(q, r) ==
    /\ page = "feed" /\ BagIn(q, net) /\ q.kind = "toggleFollow"
    /\ r \in Responses(FollowData)
    /\ LET err == Thrown(r, "Unable to update follow state.")
       IN IF err = ""
          THEN /\ follow' = [follow EXCEPT !.label = FollowLabel(r.data.is_following),
                                           !.following = r.data.is_following,
                                           !.followers = r.data.followers,
                                           !.plural = Plural(r.data.followers),
                                           !.disabled = FALSE]
               /\ loadFeed(1, showAlert(alert, IF r.data.is_following
                                               THEN "Now following user."
                                               ELSE "Unfollowed user.", "success"),
                           Settle(net, q))
               /\ last' = RespEv(q, "", <<>>)
          ELSE /\ follow' = follow
               /\ alert' = showAlert(alert, err, "danger")
               /\ net' = Settle(net, q)
               /\ last' = RespEv(q, err, <<>>)
               /\ UNCHANGED <<currentPage, posts, pagination>>
    /\ UNCHANGED <<mailVars, dashVars, page, ready, hasAlert, cookie, feedKind, totalPages, newPost>>

\* The continuation of toggleFollow's fetch (lines 359-378).
ToggleFollowResponse(q, r) ==
    /\ page = "feed" /\ BagIn(q, net) /\ q.kind = "toggleFollow"
    /\ r \in Responses(FollowData)
    /\ LET err == Thrown(r, "Unable to update follow state.")
       IN IF err = ""
          THEN /\ follow' = [follow EXCEPT !.label = FollowLabel(r.data.is_following),
                                           !.following = r.data.is_following,
                                           !.followers = r.data.followers,
                                           !.plural = Plural(r.data.followers),
                                           !.disabled = FALSE]
               /\ loadFeed(1, showAlert(alert, IF r.data.is_following
                                               THEN "Now following user."
                                               ELSE "Unfollowed user.", "success"),
                           Settle(net, q))
               /\ last' = RespEv(q, "", <<>>)
          ELSE /\ follow' = [follow EXCEPT !.disabled = FALSE]
               /\ alert' = showAlert(alert, err, "danger")
               /\ net' = Settle(net, q)
               /\ last' = RespEv(q, err, <<>>)
               /\ UNCHANGED <<currentPage, posts, pagination>>
    /\ UNCHANGED <<mailVars, dashVars, page, ready, hasAlert, cookie, feedKind, totalPages, newPost>>

----------------------------------------------------------------------------
\* The dashboard (src/project5/static/js/dashboard.js).

StatusErrText == "Request failed with status 500"
ConstErrText == "Assignment to constant variable."

\* fetchJSON(url) (lines 29-36): the message of the error its promise rejects
\* with, "" when it resolves with the parsed body.
fetchJSON(r) ==
    IF r.st = "neterr" THEN NetErrText
    ELSE IF ~r.ok THEN StatusErrText
    ELSE IF ~r.parse THEN ParseErrText
    ELSE ""

DashRead(kind) == Req(kind, "GET", NoData, NoHeader, TRUE)

\* console.error(message, error)
Logged(message, error) == [msg |-> message, error |-> error]

\* Intl.NumberFormat's format(): the text names the formatter's currency ("" for
\* the plain number formatter) and the amount.
Format(currency, amount) == [cur |-> currency, amount |-> amount]

\* The text the page is served with, before any script runs.
Served == [cur |-> "served", amount |-> 0]

\* Bodies of the summary endpoint; "" and 0 stand for an absent field.
SummaryData ==
    {[primary_currency |-> c[1], total_accounts |-> c[2], total_transactions |-> c[2],
      total_balance |-> c[3], monthly_net |-> c[4], monthly_income |-> c[5],
      monthly_expense |-> c[6]] :
        c \in {<<"", 0, 0, 0, 0, 0>>, <<"USD", 2, 100, 0 - 5, 10, 15>>,
               <<"EUR", 2, 100, 5, 15, 10>>}}

NetClass(monthly_net) ==
    IF monthly_net > 0 THEN "text-success"
    ELSE IF monthly_net < 0 THEN "text-danger"
    ELSE ""

\* The continuation of updateSummary's fetch (lines 43-81).  currencyCode and
\* currencyFormatter are const bindings: the assignments of lines 45-46 throw
\* a TypeError, which the catch logs.
UpdateSummaryResponse(q, r) ==
    /\ page = "dashboard" /\ BagIn(q, net) /\ q.kind = "updateSummary"
    /\ r \in Responses(SummaryData)
    /\ LET rejected == fetchJSON(r)
           err == IF rejected # "" THEN rejected
                  ELSE IF r.data.primary_currency # "" /\ r.data.primary_currency # currencyCode
                  THEN ConstErrText
                  ELSE ""
       IN /\ summary' =
                IF err # "" THEN summary
                ELSE [accounts |-> Format("", r.data.total_accounts),
                      transactions |-> Format("", r.data.total_transactions),
                      dataCurrency |-> currencyCode,
                      balance |-> Format(currencyFormatter, r.data.total_balance),
                      net |-> Format(currencyFormatter, r.data.monthly_net),
                      netClass |-> NetClass(r.data.monthly_net),
                      income |-> Format(currencyFormatter, r.data.monthly_income),
                      expense |-> Format(currencyFormatter, r.data.monthly_expense)]
          /\ console' = IF err # ""
                        THEN console \cup {Logged("Unable to load dashboard summary", err)}
                        ELSE console
          /\ last' = RespEv(q, err, <<>>)
    /\ net' = Settle(net, q)
    /\ UNCHANGED <<mailVars, feedVars, page, ready, hasAlert, cookie, alert,
                   currencyCode, currencyFormatter, charts, chartView>>

Slots == {"accounts", "spending", "cashflow"}
NoChart == [type |-> "", labels |-> <<>>, data |-> <<>>]
Chart(type, labels, data) == [type |-> type, labels |-> labels, data |-> data]

\* A variant of toggleChartEmptyState that never hides the canvas, for checking
\* that the empty-state property depends on line 94.
toggleChartEmptyStateKeepingCanvas(hasData) == [canvasHidden |-> FALSE, emptyHidden |-> hasData]

\* toggleChartEmptyState(canvasId, hasData) (lines 84-97): the d-none classes.
toggleChartEmptyState(hasData) == [canvasHidden |-> ~hasData, emptyHidden |-> hasData]

\* What the three render continuations share: the empty state is toggled, a
\* prior instance is destroyed, and with data a new Chart is constructed.
\* live counts the Chart instances constructed and not destroyed.
RenderSlot(slot, hasData, chart) ==
    /\ chartView' = [chartView EXCEPT ![slot] = toggleChartEmptyState(hasData)]
    /\ charts' = [charts EXCEPT ![slot] =
                    [chart |-> IF hasData THEN chart ELSE NoChart,
                     live |-> (IF @.chart # NoChart THEN @.live - 1 ELSE @.live)
                              + (IF hasData THEN 1 ELSE 0)]]

AccountsData ==
    {[accounts |-> <<>>], [accounts |-> <<[name |-> "cash", current_balance |-> 5]>>]}

\* The continuation of renderAccountsChart's fetch (lines 104-160).
RenderAccountsChartResponse(q, r) ==
    /\ page = "dashboard" /\ BagIn(q, net) /\ q.kind = "renderAccountsChart"
    /\ r \in Responses(AccountsData)
    /\ LET err == fetchJSON(r)
       IN IF err # ""
          THEN /\ console' = console \cup {Logged("Unable to load accounts chart", err)}
               /\ UNCHANGED <<charts, chartView>>
          ELSE /\ LET accounts == r.data.accounts
                  IN RenderSlot("accounts", Len(accounts) > 0,
                                Chart("doughnut",
                                      [i \in 1..Len(accounts) |-> accounts[i].name],
                                      [i \in 1..Len(accounts) |-> accounts[i].current_balance]))
               /\ console' = console
    /\ last' = RespEv(q, fetchJSON(r), <<>>)
    /\ net' = Settle(net, q)
    /\ UNCHANGED <<mailVars, feedVars, page, ready, hasAlert, cookie, alert,
                   currencyCode, currencyFormatter, summary>>

SpendingData ==
    {[labels |-> <<>>, values |-> <<>>], [labels |-> <<"food">>, values |-> <<3>>]}

\* The continuation of renderSpendingChart's fetch (lines 168-220).
RenderSpendingChartResponse(q, r) ==
    /\ page = "dashboard" /\ BagIn(q, net) /\ q.kind = "renderSpendingChart"
    /\ r \in Responses(SpendingData)
    /\ LET err == fetchJSON(r)
       IN IF err # ""
          THEN /\ console' = console \cup {Logged("Unable to load spending chart", err)}
               /\ UNCHANGED <<charts, chartView>>
          ELSE /\ RenderSlot("spending", Len(r.data.labels) > 0,
                             Chart("doughnut", r.data.labels, r.data.values))
               /\ console' = console
    /\ last' = RespEv(q, fetchJSON(r), <<>>)
    /\ net' = Settle(net, q)
    /\ UNCHANGED <<mailVars, feedVars, page, ready, hasAlert, cookie, alert,
                   currencyCode, currencyFormatter, summary>>

CashflowData ==
    {[labels |-> c[1], income |-> c[2], expense |-> c[3]] :
        c \in {<<<<>>, <<>>, <<>>>>, <<<<"Jan">>, <<0>>, <<0>>>>, <<<<"Jan">>, <<4>>, <<0>>>>}}

Some(xs) == \E i \in 1..Len(xs) : xs[i] # 0

\* The continuation of renderCashflowChart's fetch (lines 228-290).
RenderCashflowChartResponse(q, r) ==
    /\ page = "dashboard" /\ BagIn(q, net) /\ q.kind = "renderCashflowChart"
    /\ r \in Responses(CashflowData)
    /\ LET err == fetchJSON(r)
       IN IF err # ""
          THEN /\ console' = console \cup {Logged("Unable to load cashflow chart", err)}
               /\ UNCHANGED <<charts, chartView>>
          ELSE /\ RenderSlot("cashflow",
                             Len(r.data.labels) > 0
                                 /\ (Some(r.data.income) \/ Some(r.data.expense)),
                             Chart("bar", r.data.labels, <<r.data.income, r.data.expense>>))
               /\ console' = console
    /\ last' = RespEv(q, fetchJSON(r), <<>>)
    /\ net' = Settle(net, q)
    /\ UNCHANGED <<mailVars, feedVars, page, ready, hasAlert, cookie, alert,
                   currencyCode, currencyFormatter, summary>>

\* initialiseDashboard() (lines 293-298): the four fetches are issued.
initialiseDashboard ==
    /\ page = "dashboard" /\ ~ready
    /\ ready' = TRUE
    /\ net' = Issue(Issue(Issue(Issue(net, DashRead("updateSummary")),
                                DashRead("renderAccountsChart")),
                          DashRead("renderSpendingChart")),
                    DashRead("renderCashflowChart"))
    /\ last' = UserEv
    /\ UNCHANGED <<mailVars, feedVars, dashVars, page, hasAlert, cookie, alert>>

\* data-currency of #summary-total-balance as served ("": no such attribute).
DataCurrencies == {"", "EUR"}

----------------------------------------------------------------------------
CookieJars ==
    << <<<<"sessionid", "s1">>>>,
       <<<<"sessionid", "s1">>, <<"csrftoken", "tok">>>> >>

\* The pages the scripts are loaded in: the script, whether the page has an
\* #alert-container, its cookies, and data-feed of the feed's #page-root.
Pages ==
    {<<"mail", TRUE, CookieJars[1]>>, <<"mail", FALSE, CookieJars[1]>>,
     <<"feed", TRUE, CookieJars[2]>>, <<"feed", FALSE, CookieJars[1]>>,
     <<"dashboard", FALSE, CookieJars[1]>>}

Init ==
    /\ \E c \in Pages : page = c[1] /\ hasAlert = c[2] /\ cookie = c[3]
    /\ ready = FALSE
    /\ feedKind \in IF page = "feed" THEN {"all", "profile"} ELSE {"all"}
    /\ currentPage = 1
    /\ totalPages = 1
    /\ posts = Placeholder("")
    /\ pagination = <<>>
    /\ newPost = [value |-> <<>>, count |-> 0]
    /\ follow = [disabled |-> FALSE, hidden |-> FALSE, label |-> "Follow",
                 following |-> FALSE, username |-> "", followers |-> 0,
                 followingCount |-> 0, plural |-> "s"]
    /\ alert = <<>>
    /\ net = EmptyBag
    /\ last = UserEv
    /\ currentMailbox = "inbox"
    /\ shown = "emails"
    /\ emailsView = <<>>
    /\ compose = BlankCompose
    /\ \E d \in IF page = "dashboard" THEN DataCurrencies ELSE {""} :
          /\ currencyCode = (IF d = "" THEN "USD" ELSE d)
          /\ summary = [accounts |-> Served, transactions |-> Served, dataCurrency |-> d,
                        balance |-> Served, net |-> Served, netClass |-> "",
                        income |-> Served, expense |-> Served]
    /\ currencyFormatter = currencyCode
    /\ charts = [s \in Slots |-> [chart |-> NoChart, live |-> 0]]
    /\ chartView = [s \in Slots |-> [canvasHidden |-> FALSE, emptyHidden |-> TRUE]]
    /\ console = {}

NextDash ==
    \/ initialiseDashboard
    \/ \E q \in BagToSet(net), r \in Responses(SummaryData) : UpdateSummaryResponse(q, r)
    \/ \E q \in BagToSet(net), r \in Responses(AccountsData) :
            RenderAccountsChartResponse(q, r)
    \/ \E q \in BagToSet(net), r \in Responses(SpendingData) :
            RenderSpendingChartResponse(q, r)
    \/ \E q \in BagToSet(net), r \in Responses(CashflowData) :
            RenderCashflowChartResponse(q, r)

NextFeed ==
    \/ FeedDOMContentLoaded
    \/ \E k \in 1..4 : ClickPage(k)
    \/ \E t \in NewPostTexts : TypeNewPost(t)
    \/ SubmitNewPost
    \/ \E q \in BagToSet(net), r \in Responses(FeedData) : LoadFeedResponse(q, r)
    \/ \E q \in BagToSet(net), r \in Responses({[id |-> 3]}) : NewPostResponse(q, r)
    \/ \E i \in 1..2 : ClickEdit(i)
    \/ \E i \in 1..2, t \in EditTexts : TypeEdit(i, t)
    \/ \E i \in 1..2 : ClickCancel(i)
    \/ \E i \in 1..2 : ClickSave(i)
    \/ \E i \in 1..2 : ClickLike(i)
    \/ ClickFollow
    \/ \E q \in BagToSet(net) : \E r \in Responses(SaveData(q)) : SavePostResponse(q, r)
    \/ \E q \in BagToSet(net), r \in Responses(LikeData) : ToggleLikeResponse(q, r)
    \/ \E q \in BagToSet(net), r \in Responses(ProfileData) : LoadProfileInfoResponse(q, r)
    \/ \E q \in BagToSet(net), r \in Responses(FollowData) : ToggleFollowResponse(q, r)

NextMail ==
    \/ MailDOMContentLoaded
    \/ \E mb \in Mailboxes : ClickMailbox(mb)
    \/ ClickCompose
    \/ TypeCompose
    \/ ClickReply
    \/ SubmitCompose
    \/ \E i \in 1..2 : ClickRow(i)
    \/ ClickArchive
    \/ \E q \in BagToSet(net), r \in Responses(MailLists) : LoadMailboxResponse(q, r)
    \/ \E q \in BagToSet(net), r \in Responses(DetailData(1) \cup DetailData(2)) :
            ViewEmailResponse(q, r)
    \/ \E q \in BagToSet(net), r \in Responses({NoData}) : MarkReadResponse(q, r)
    \/ \E q \in BagToSet(net), r \in Responses({[message |-> "Email sent successfully."]}) :
            SendEmailResponse(q, r)
    \/ \E q \in BagToSet(net), r \in Responses({NoData}) : ToggleArchiveResponse(q, r)

Next == NextMail \/ NextFeed \/ NextDash

Spec == Init /\ [][Next]_vars

\* The three pages on their own.
InitMail == Init /\ page = "mail"
InitFeed == Init /\ page = "feed"
InitDash == Init /\ page = "dashboard"
SpecMail == InitMail /\ [][NextMail]_vars
SpecFeed == InitFeed /\ [][NextFeed]_vars
SpecDash == InitDash /\ [][NextDash]_vars

----------------------------------------------------------------------------
\* Properties

\* The answer is a success status with a parseable body.
Ok(r) == r.st = "http" /\ r.ok /\ r.parse
\* The failure outcomes of a mutation: a network failure or a non-success status.
FailedAnswers == {r \in Failures : r.st = "neterr" \/ ~r.ok}

\* How many requests of bag b are collection loads / read-marking PUTs.
Loads(b) == SumCopies(b, {e \in BagToSet(b) : e.kind \in {"load_mailbox", "loadFeed"}})
MarkReads(b) == SumCopies(b, {e \in BagToSet(b) : e.kind = "mark_read"})

\* The ids of a sequence of response items, of mail rows and of post elements.
ItemIds(items) == [i \in 1..Len(items) |-> items[i].id]
PostIds(rows) == [i \in 1..Len(rows) |-> rows[i].postId]
EmptyShown(view) == \E i \in 1..Len(view) : view[i].t = "empty"

\* The step is the continuation of a request of one of these kinds: every
\* continuation records its request's kind in last.
StepOf(kinds) == last'.op \in kinds

MutationResponse(q, r) ==
    \/ ToggleArchiveResponse(q, r)
    \/ ToggleLikeResponse(q, r)
    \/ ToggleFollowResponse(q, r)
    \/ SavePostResponse(q, r)

\* C1: when a mutation (archive toggle, like toggle, follow toggle, edit save)
\* fails by a network failure or a non-success status, the failure handler
\* leaves the rendered item as it was (mail view, post list, follow label and
\* follower count), issues no collection load, and an error notification is
\* shown (in the alert region or as a blocking dialog).
C1_FailedMutationKeepsViewAndNotifies ==
    [][\A q \in BagToSet(net) : \A r \in FailedAnswers :
          MutationResponse(q, r) =>
              /\ emailsView' = emailsView /\ currentMailbox' = currentMailbox
              /\ posts' = posts
              /\ follow'.label = follow.label /\ follow'.followers = follow.followers
              /\ Loads(net') = Loads(net)
              /\ (alert' # <<>> \/ last'.dialogs # <<>>)]_vars

\* C2: every POST or PUT request in flight carries the X-CSRFToken header with
\* the value of the csrftoken cookie.
C2_TokenOnEveryWrite ==
    \A q \in BagToSet(net) :
        q.method \in {"POST", "PUT"} => q.hdr = Header(CookieMatch(cookie))

\* C3: pressing Cancel in edit mode leaves the post displayed with exactly its
\* originally rendered text, and issues no network request.
C3_EditCancelRoundTrip ==
    [][\A i \in 1..2 :
          ClickCancel(i) =>
              /\ net' = net
              /\ (posts').st = "rows" /\ Len((posts').rows) = Len(posts.rows)
              /\ ~(posts').rows[i].editing
              /\ (posts').rows[i].content = posts.rows[i].originalText]_vars

\* C4: when the summary response reports a primary_currency other than
\* currencyCode, the formatter is rebuilt with the reported code and the
\* balance, monthly net and income/expense breakdown are rendered with it.
C4_FormatterRebuilt ==
    [][\A q \in BagToSet(net) : \A r \in Responses(SummaryData) :
          (/\ UpdateSummaryResponse(q, r)
           /\ Ok(r)
           /\ r.data.primary_currency # ""
           /\ r.data.primary_currency # currencyCode) =>
              /\ currencyFormatter' = r.data.primary_currency
              /\ (summary').balance = Format(r.data.primary_currency, r.data.total_balance)
              /\ (summary').net = Format(r.data.primary_currency, r.data.monthly_net)
              /\ (summary').income = Format(r.data.primary_currency, r.data.monthly_income)
              /\ (summary').expense = Format(r.data.primary_currency, r.data.monthly_expense)]_vars

\* C5: the failure of a load_mailbox or view_email request that was issued for
\* an earlier view (the user has since opened compose, or another mailbox load
\* has been issued) puts no notification in the alert region.
C5_NoStaleErrorInLaterView ==
    [][\A q \in BagToSet(net) : \A r \in Failures :
          ((LoadMailboxResponse(q, r) \/ ViewEmailResponse(q, r))
              /\ (shown = "compose" \/ q.sup)) =>
              alert' = alert]_vars

\* A successful response of a superseded collection load q arrives after the
\* responses of all later loads: the two arrived in the opposite order to the
\* order of issue.
StaleLoadArrivesLast(q, r) ==
    /\ LoadMailboxResponse(q, r) \/ LoadFeedResponse(q, r)
    /\ Ok(r) /\ q.sup /\ Loads(net') = 0

\* C6 as stated: when the response of a superseded load arrives last, the list
\* rendered afterwards is the one that response carries, for load_mailbox and
\* for loadFeed alike.
C6_LastArrivalWins ==
    [][\A q \in BagToSet(net) :
          /\ \A r \in Responses(MailLists) :
                StaleLoadArrivesLast(q, r) =>
                    /\ ItemIds(ShownRows') = ItemIds(r.data.items)
                    /\ EmptyShown(emailsView') = (Len(r.data.items) = 0)
          /\ \A r \in Responses(FeedData) :
                StaleLoadArrivesLast(q, r) =>
                    PostIds((posts').rows) = ItemIds(r.data.results)]_vars

\* C6, amended: when the response of a superseded load arrives last, loadFeed
\* renders the list that response carries (the stale data), while the item
\* rows #emails-view displays are left as they were: load_mailbox appends a
\* superseded call's rows to that call's own, detached, list container.
C6_LastArrivalWinsInFeedOnly ==
    [][StepOf({"load_mailbox", "loadFeed"}) =>
          \A q \in BagToSet(net) :
              /\ \A r \in Responses(MailLists) :
                    StaleLoadArrivesLast(q, r) => ShownRows' = ShownRows
              /\ \A r \in Responses(FeedData) :
                    StaleLoadArrivesLast(q, r) =>
                        PostIds((posts').rows) = ItemIds(r.data.results)]_vars

\* The successful response of a superseded load_mailbox call has arrived after
\* that of the later call, whose two rows are displayed.
C6_Witness ==
    /\ page = "mail" /\ last.op = "load_mailbox" /\ last.ok /\ last.stale
    /\ Loads(net) = 0 /\ Len(ShownRows) = 2

\* The control a mutation request was issued from: its kind and the item it
\* belongs to.
Control(q) ==
    CASE q.kind \in {"toggleLike", "savePost"} -> <<q.kind, q.arg.postId>>
      [] q.kind = "toggle_archive" -> <<q.kind, q.arg.emailId>>
      [] OTHER -> <<q.kind, 0>>

MutationKinds == {"toggleFollow", "toggleLike", "savePost", "toggle_archive", "send_email"}

\* C7: of the mutation requests issued by one control that is still in the
\* document, at most one is in flight.
C7_OneMutationPerControl ==
    \A q \in BagToSet(net) :
        (q.kind \in MutationKinds /\ q.att) =>
            SumCopies(net, {e \in BagToSet(net) :
                               e.kind \in MutationKinds /\ e.att
                                   /\ Control(e) = Control(q)}) <= 1

C9_EmptyStateAndNoRows ==
    [][\A q \in BagToSet(net) :
          /\ \A r \in Responses(MailLists) :
                (LoadMailboxResponse(q, r) /\ Ok(r) /\ Len(r.data.items) = 0) =>
                    EmptyShown(emailsView') /\ Len(ShownRows') = 0
          /\ \A r \in Responses(FeedData) :
                (LoadFeedResponse(q, r) /\ Ok(r) /\ Len(r.data.results) = 0) =>
                    posts' = NoPosts]_vars

\* C10: a read-marking PUT is issued exactly by the continuation of a detail
\* load that succeeded with read = false, for that email; a detail load that
\* failed or reports read = true issues none, and no other step issues one.
C10_MarkReadIffUnread ==
    [][/\ \A q \in BagToSet(net) : \A r \in Responses(DetailData(1) \cup DetailData(2)) :
            ViewEmailResponse(q, r) =>
                IF Ok(r) /\ ~r.data.read
                THEN /\ MarkReads(net') = MarkReads(net) + 1
                     /\ \E m \in BagToSet(net') :
                            /\ m.kind = "mark_read" /\ m.method = "PUT"
                            /\ m.arg.emailId = q.arg.emailId
                            /\ CopiesIn(m, net') = CopiesIn(m, net) + 1
                ELSE MarkReads(net') = MarkReads(net)
       /\ MarkReads(net') > MarkReads(net) =>
            \E q \in BagToSet(net) : \E r \in Responses(DetailData(1) \cup DetailData(2)) :
                ViewEmailResponse(q, r) /\ Ok(r) /\ ~r.data.read]_vars

\* The detail of an unread email has just been rendered and its read-marking
\* PUT is in flight.
C10_Witness ==
    /\ page = "mail" /\ last.op = "view_email" /\ last.ok /\ ShownDetail
    /\ \E m \in BagToSet(net) :
          m.kind = "mark_read" /\ m.arg.emailId = emailsView[1].emailId

\* How many requests of bag b are of kind k.
CountKind(b, k) == SumCopies(b, {e \in BagToSet(b) : e.kind = k})

\* The response carries a success status (its body may or may not parse).
SuccessStatus(r) == r.st = "http" /\ r.ok

\* C11: when the archive PUT answers with a success status, the continuation
\* issues one load_mailbox request (the only one whose list container is then
\* in the document), for "archive" when archived = true was
\* sent and for "inbox" when archived = false was sent; the view then shows
\* that mailbox's heading with an empty list, and no list container of an
\* earlier load stays in the document, so no row of another mailbox's list can
\* be displayed under it.  Neither the click on the archive button nor a
\* failed archive PUT issues a collection load.
C11_ArchiveReloadsTarget ==
    [][page = "mail" =>
          /\ ClickArchive => Loads(net') = Loads(net)
          /\ StepOf({"toggle_archive"}) =>
                \A q \in BagToSet(net) : \A r \in Responses({NoData}) :
                    ToggleArchiveResponse(q, r) =>
                        IF SuccessStatus(r)
                        THEN LET target == IF q.arg.archived THEN "archive" ELSE "inbox"
                             IN /\ Loads(net') = Loads(net) + 1
                                /\ CopiesIn(MailReq("load_mailbox", "GET", [mailbox |-> target]), net') = 1
                                /\ currentMailbox' = target
                                /\ shown' = "emails"
                                /\ emailsView' = <<Heading(target), ListNode(<<>>)>>
                                /\ \A e \in BagToSet(net') :
                                      (e.kind = "load_mailbox" /\ e.att) =>
                                          (e.arg.mailbox = target /\ ~e.sup)
                        ELSE /\ Loads(net') = Loads(net)
                             /\ mailVars' = mailVars]_vars

\* An archive PUT sent with archived = true has answered with a success status:
\* the archive mailbox is being loaded and its heading is displayed.
C11_Witness ==
    /\ page = "mail" /\ last.op = "toggle_archive" /\ last.ok
    /\ currentMailbox = "archive" /\ shown = "emails"
    /\ emailsView = <<Heading("archive"), ListNode(<<>>)>>
    /\ BagIn(MailReq("load_mailbox", "GET", [mailbox |-> "archive"]), net)

\* The text the feed shows when a post or an edit is empty after trimming.
EmptyContentWarning == <<[msg |-> "Post content cannot be empty.", type |-> "warning"]>>

\* C12: submitting a new post, or saving an edit, whose content is empty after
\* trimming whitespace issues no request and leaves the warning "Post content
\* cannot be empty." displayed as the notification.
C12_EmptyContentBlockedWithWarning ==
    [][page = "feed" =>
          /\ (SubmitNewPost /\ Trim(newPost.value) = <<>>) =>
                (net' = net /\ alert' = EmptyContentWarning)
          /\ \A i \in 1..2 :
                (ClickSave(i) /\ Trim(posts.rows[i].textarea) = <<>>) =>
                    (net' = net /\ alert' = EmptyContentWarning)]_vars

SendData == {[message |-> "Email sent successfully."]}

\* The error message is shown: as the one notification of the alert region
\* where the page has one, as a blocking dialog where the step raised one.
Notified(msg, type) ==
    \/ hasAlert /\ alert' = <<[msg |-> msg, type |-> type]>>
    \/ last'.dialogs = <<msg>>

Continuation(q, r) ==
    \/ LoadMailboxResponse(q, r) \/ ViewEmailResponse(q, r)
    \/ SendEmailResponse(q, r) \/ ToggleArchiveResponse(q, r)
    \/ LoadFeedResponse(q, r) \/ NewPostResponse(q, r) \/ SavePostResponse(q, r)
    \/ ToggleLikeResponse(q, r) \/ ToggleFollowResponse(q, r)
    \/ LoadProfileInfoResponse(q, r)

ErrorKinds ==
    {"load_mailbox", "view_email", "send_email", "toggle_archive", "loadFeed",
     "newPost", "savePost", "toggleLike", "toggleFollow", "loadProfileInfo"}

\* The hardcoded fallback message of each action of the mail client.
MailFallback(kind) ==
    CASE kind = "load_mailbox" -> "Unable to load mailbox."
      [] kind = "view_email" -> "Unable to load email."
      [] kind = "send_email" -> "Unable to send email."
      [] kind = "toggle_archive" -> "Unable to update archive state."

\* The hardcoded fallback message of each action of the feed client.
FeedFallback(kind) ==
    CASE kind = "loadFeed" -> "Unable to load posts."
      [] kind = "newPost" -> "Unable to create post."
      [] kind = "savePost" -> "Unable to update post."
      [] kind = "toggleLike" -> "Unable to update like."
      [] kind = "toggleFollow" -> "Unable to update follow state."
      [] kind = "loadProfileInfo" -> "Unable to load profile."

FallbackOf(kind) ==
    IF kind \in {"load_mailbox", "view_email", "send_email", "toggle_archive"}
    THEN MailFallback(kind)
    ELSE FeedFallback(kind)

\* The step's notification is msg: the one notification of the alert region,
\* or the one blocking dialog raised.
Shows(msg) ==
    \/ Len(alert') = 1 /\ alert'[1].msg = msg
    \/ last'.dialogs = <<msg>>

\* C14: when the server answers an action with a non-success status and a JSON
\* body carrying an error string, the notification shown is that string.
C14_ServerErrorShown ==
    [][StepOf(ErrorKinds) =>
          \A q \in BagToSet(net) :
              Continuation(q, Http(FALSE, TRUE, ServerError, NoData)) =>
                  Shows(ServerError)]_vars

\* C15: when the server answers an action with a non-success status and either
\* a JSON body without an error field or a body that is not JSON, the
\* notification shown is the action's hardcoded fallback message.
C15_FallbackShown ==
    [][StepOf(ErrorKinds) =>
          \A q \in BagToSet(net) :
              \A r \in {Http(FALSE, TRUE, "", NoData), Http(FALSE, FALSE, "", NoData)} :
                  Continuation(q, r) => Shows(FallbackOf(q.kind))]_vars

\* C16: when the fetch of an action rejects (network failure), the
\* notification shown is the action's generic "Unable to ..." message and not
\* the text of the transport error.
C16_GenericOnNetworkFailure ==
    [][StepOf(ErrorKinds) =>
          \A q \in BagToSet(net) :
              Continuation(q, NetErr) =>
                  (Shows(FallbackOf(q.kind)) /\ ~Shows(NetErrText))]_vars

\* C17: on a page without the alert region, every continuation that catches an
\* error (and so passes its non-empty message to the alert surface) raises a
\* blocking dialog, in the mail client and in the feed client.
C17_NoErrorDropped ==
    [][(~hasAlert /\ StepOf(ErrorKinds) /\ ~last'.ok) => last'.dialogs # <<>>]_vars

AlertMessages == {ServerError, "Email sent successfully.", "Post published!"}
AlertTypes == {"info", "success", "warning", "danger"}

\* C18: the alert region holds at most one notification; whatever it holds,
\* showing a non-empty message leaves exactly that message with its severity,
\* and showing the empty message (hide_alert in the mail client) leaves the
\* region empty.
C18_SingleSlot ==
    /\ Len(alert) <= 1
    /\ (hasAlert /\ page = "mail") =>
          /\ \A m \in AlertMessages : \A t \in AlertTypes :
                show_alert(alert, m, t) = <<[msg |-> m, type |-> t]>>
          /\ \A t \in AlertTypes : show_alert(alert, "", t) = <<>>
          /\ hide_alert(alert) = <<>>
    /\ (hasAlert /\ page = "feed") =>
          /\ \A m \in AlertMessages : \A t \in AlertTypes :
                showAlert(alert, m, t) = <<[msg |-> m, type |-> t]>>
          /\ \A t \in AlertTypes : showAlert(alert, "", t) = <<>>

\* The region holds a notification put there by a failed detail load, shown
\* over whatever the region held before.
C18_Witness ==
    /\ page = "mail" /\ hasAlert /\ last.op = "view_email" /\ ~last.ok
    /\ alert = <<[msg |-> ServerError, type |-> "danger"]>>

\* The requests issued by load_mailbox, view_email, send_email and loadFeed.
NavKinds == {"load_mailbox", "view_email", "send_email", "loadFeed"}

\* C19: every step in which load_mailbox, view_email, send_email or loadFeed
\* runs (it issues that operation's request) or in which compose_email runs
\* (the Compose and Reply buttons) ends with the alert region empty, whatever
\* the region held and whatever the handler showed before the call.
C19_NavigationClearsAlert ==
    [][((\E k \in NavKinds : CountKind(net', k) > CountKind(net, k))
            \/ ClickCompose \/ ClickReply) =>
          alert' = <<>>]_vars

\* A post was published: the handler showed "Post published!" in the region
\* and then called loadFeed(1), which emptied it and issued its request.
C19_Witness ==
    /\ page = "feed" /\ hasAlert /\ last.op = "newPost" /\ last.ok
    /\ alert = <<>> /\ CountKind(net, "loadFeed") >= 1

\* C20: when a collection load fails (network failure or non-success status),
\* no item row of an earlier load is displayed afterwards and the error is
\* shown as a notification.  For loadFeed the post list holds no rows; for
\* load_mailbox the list holds no rows unless a later load_mailbox call has
\* replaced it since, and then the failure leaves that later list as it is.
C20_FailedLoadShowsNoStaleRows ==
    [][StepOf({"load_mailbox", "loadFeed"}) =>
          \A q \in BagToSet(net) : \A r \in FailedAnswers :
              /\ LoadMailboxResponse(q, r) =>
                    /\ ShownRows' = (IF q.sup THEN ShownRows ELSE <<>>)
                    /\ Shows(Thrown(r, FallbackOf(q.kind)))
              /\ LoadFeedResponse(q, r) =>
                    /\ (posts').rows = <<>>
                    /\ Shows(Thrown(r, FallbackOf(q.kind)))]_vars

\* C21: whatever the outcome of a read-marking PUT (network failure,
\* non-success status, unparseable body or success), its settling shows no
\* notification and raises no dialog, leaves the mail view (the rendered
\* detail included) as it was, and issues no request: the requests in flight
\* afterwards are the earlier ones less the PUT.
C21_MarkReadSilent ==
    [][StepOf({"mark_read"}) =>
          \A q \in BagToSet(net) : \A r \in Responses({NoData}) :
              MarkReadResponse(q, r) =>
                  /\ alert' = alert
                  /\ last'.dialogs = <<>>
                  /\ mailVars' = mailVars
                  /\ net' = Settle(net, q)]_vars

\* A read-marking PUT has failed at the network level while the email's detail
\* is displayed: no notification is shown.
C21_Witness ==
    /\ page = "mail" /\ last.op = "mark_read" /\ ~last.ok
    /\ shown = "emails" /\ ShownDetail /\ alert = <<>>

\* C22: a continuation that caught an error (a rejected fetch, a non-success
\* status, a body that does not parse), and the settling of a read-marking
\* PUT whatever its outcome, issue no request: the number of requests in
\* flight goes down by the one that settled, and no collection load is added.
\* This holds in the mail client, the feed client and the dashboard.
C22_NoRetryAfterFailure ==
    [][(last'.op # "user" /\ (~last'.ok \/ last'.op = "mark_read")) =>
          /\ BagCardinality(net') = BagCardinality(net) - 1
          /\ CountKind(net', last'.op) = CountKind(net, last'.op) - 1
          /\ Loads(net') <= Loads(net)]_vars

\* A follow toggle has failed and nothing is in flight afterwards.
C22_Witness ==
    /\ page = "feed" /\ last.op = "toggleFollow" /\ ~last.ok
    /\ net = EmptyBag

\* What a chart slot shows after a render: with data the canvas and exactly
\* one live chart instance, without data the placeholder and no instance.
SlotShows(slot, hasData) ==
    IF hasData
    THEN /\ ~chartView'[slot].canvasHidden /\ chartView'[slot].emptyHidden
         /\ charts'[slot].chart # NoChart /\ charts'[slot].live = 1
    ELSE /\ chartView'[slot].canvasHidden /\ ~chartView'[slot].emptyHidden
         /\ charts'[slot].chart = NoChart /\ charts'[slot].live = 0

\* C23: after the accounts, spending or cashflow aggregate has been fetched,
\* the slot shows the placeholder, hides the canvas and holds no chart instance
\* when the aggregate has no data points (no accounts; no spending labels; no
\* cashflow labels, or income and expense values all zero), and otherwise
\* hides the placeholder, shows the canvas and holds exactly one live chart
\* instance; no slot ever has more than one live instance.
C23_ChartSlotMatchesData ==
    [][page = "dashboard" =>
          /\ \A s \in Slots : charts'[s].live <= 1
          /\ \A q \in BagToSet(net) :
                /\ \A r \in Responses(AccountsData) :
                      (RenderAccountsChartResponse(q, r) /\ Ok(r)) =>
                          SlotShows("accounts", Len(r.data.accounts) > 0)
                /\ \A r \in Responses(SpendingData) :
                      (RenderSpendingChartResponse(q, r) /\ Ok(r)) =>
                          SlotShows("spending", Len(r.data.labels) > 0)
                /\ \A r \in Responses(CashflowData) :
                      (RenderCashflowChartResponse(q, r) /\ Ok(r)) =>
                          SlotShows("cashflow",
                                    /\ Len(r.data.labels) > 0
                                    /\ \/ \E i \in 1..Len(r.data.income) : r.data.income[i] # 0
                                       \/ \E i \in 1..Len(r.data.expense) : r.data.expense[i] # 0)]_vars

\* The cashflow slot holds a chart while the accounts slot, whose aggregate had
\* no accounts, shows its placeholder.
C23_Witness ==
    /\ page = "dashboard"
    /\ charts["cashflow"].chart # NoChart /\ charts["cashflow"].live = 1
    /\ ~chartView["cashflow"].canvasHidden /\ chartView["cashflow"].emptyHidden
    /\ chartView["accounts"].canvasHidden /\ ~chartView["accounts"].emptyHidden
    /\ charts["accounts"].chart = NoChart

\* C24: at most one follow request is in flight, and the follow toggle is
\* disabled exactly while one is: it is disabled when the POST is issued and
\* enabled again when the request has completed, whatever the outcome.
C24_FollowDisabledWhileInFlight ==
    page = "feed" =>
        /\ CountKind(net, "toggleFollow") <= 1
        /\ follow.disabled <=> (CountKind(net, "toggleFollow") = 1)

\* A follow request has failed and the toggle is enabled again.
C24_Witness ==
    /\ page = "feed" /\ last.op = "toggleFollow" /\ ~last.ok
    /\ ~follow.disabled /\ CountKind(net, "toggleFollow") = 0

\* C25: a load_mailbox call that a later call has superseded has lost its list
\* container from the document, and its response leaves the displayed item
\* rows as they were; the response of the call that no later call has
\* superseded is for the active mailbox and, while its container is in the
\* document, makes the displayed rows exactly the rows of its items.  So the
\* rows on display once all responses have arrived are those of the most
\* recently requested mailbox, in whichever order the responses arrived.
C25_SupersededLoadAddsNoRows ==
    [][(page = "mail" /\ StepOf({"load_mailbox"})) =>
          \A q \in BagToSet(net) : \A r \in Responses(MailLists) :
              LoadMailboxResponse(q, r) =>
                  /\ q.sup => ~q.att
                  /\ (q.sup \/ ~q.att) => ShownRows' = ShownRows
                  /\ ~q.sup => q.arg.mailbox = currentMailbox
                  /\ (~q.sup /\ q.att /\ Ok(r)) =>
                        ShownRows' = MailRows(currentMailbox, r.data.items)]_vars

\* The successful response of a superseded load_mailbox call has arrived after
\* that of the later call, whose single row is still the one displayed.
C25_Witness ==
    /\ page = "mail" /\ last.op = "load_mailbox" /\ last.ok /\ last.stale
    /\ Loads(net) = 0 /\ ItemIds(ShownRows) = <<1>>

\* A load_mailbox call issued after the click that made request q is still in
\* flight: rows can be clicked only once the load that drew them has been
\* answered, so a load in flight whose container is in the document was
\* issued after every view_email request in flight.
LaterLoadInFlight ==
    \E e \in BagToSet(net) : e.kind = "load_mailbox" /\ e.att

\* C26: the response of a load_mailbox call that a later load_mailbox call
\* has superseded, and the response of a view_email call made before the
\* latest load_mailbox call, leave the children of #emails-view as the latest
\* navigation rendered them.
C26_LateResponsesLeaveViewAlone ==
    [][(page = "mail" /\ StepOf({"load_mailbox", "view_email"})) =>
          \A q \in BagToSet(net) :
              /\ \A r \in Responses(MailLists) :
                    (LoadMailboxResponse(q, r) /\ q.sup) => emailsView' = emailsView
              /\ \A r \in Responses(DetailData(1) \cup DetailData(2)) :
                    (ViewEmailResponse(q, r) /\ LaterLoadInFlight) =>
                        emailsView' = emailsView]_vars

\* The page item marked active in the pagination control (0 when there is none).
ActivePage ==
    IF \E k \in 1..Len(pagination) : pagination[k].active
    THEN pagination[CHOOSE k \in 1..Len(pagination) : pagination[k].active].page
    ELSE 0

\* C27: when a successful loadFeed response has been rendered and no loadFeed
\* request is left in flight, the rendered posts and totalPages are those of
\* the response to the request for the page held in currentPage, and where
\* the pagination control is drawn that page is its active item.
C27_RenderedPageIsCurrentPage ==
    [][(page = "feed" /\ StepOf({"loadFeed"})) =>
          \A q \in BagToSet(net) : \A r \in Responses(FeedData) :
              (LoadFeedResponse(q, r) /\ Ok(r) /\ Loads(net') = 0) =>
                  /\ q.arg.page = currentPage'
                  /\ pagination' # <<>> => ActivePage' = currentPage']_vars

\* The region holds the success notification msg.
SuccessShown(msg) == alert' = <<[msg |-> msg, type |-> "success"]>>

\* C28: on a page with the alert region, when the success handler of
\* send_email, of the new-post submission, of the edit save or of the follow
\* toggle has finished, the region displays that handler's success message.
C28_SuccessNotificationStays ==
    [][(hasAlert /\ StepOf({"send_email", "newPost", "savePost", "toggleFollow"})) =>
          \A q \in BagToSet(net) :
              /\ \A r \in Responses(SendData) :
                    (SendEmailResponse(q, r) /\ Ok(r)) =>
                        SuccessShown("Email sent successfully.")
              /\ \A r \in Responses({[id |-> 3]}) :
                    (NewPostResponse(q, r) /\ Ok(r)) => SuccessShown("Post published!")
              /\ \A r \in Responses(SaveData(q)) :
                    (SavePostResponse(q, r) /\ Ok(r)) => SuccessShown("Post updated.")
              /\ \A r \in Responses(FollowData) :
                    (ToggleFollowResponse(q, r) /\ Ok(r)) =>
                        SuccessShown(IF r.data.is_following
                                     THEN "Now following user."
                                     ELSE "Unfollowed user.")]_vars

====
